---- MODULE Spec2Model ----
(***************************************************************************)
(* Run lifecycle and parent/subagent message channel of the MCP subagent   *)
(* server.  One run is modelled (runs are independent of each other); the  *)
(* run document is the JSON file the handlers read and write, addressed    *)
(* here by its run identifier.                                             *)
(*                                                                         *)
(* A document is a record of the JSON keys the handlers look at.  A key    *)
(* that is not in the JSON object is "absent"; a JSON null is "null".      *)
(* The message-channel handlers address the communication section of the  *)
(* document under the key `meta` (status and messages); the runner and     *)
(* the status tools address the top-level keys.                            *)
(***************************************************************************)
EXTENDS Integers, Sequences, FiniteSets, TLC

\* ------------------------------------------------------------------ bounds
MaxMessages == 2
MaxInFlight == 2
MaxCalls == 4
MaxViewMessages == 3
MaxOutputChunks == 2

\* ------------------------------------------------------------ value spaces
TerminalStatuses == {"success", "error", "completed"}

\* status enum accepted by the `meta` section of MetaFileContentSchema
MetaStatusEnum ==
    {"pending", "running", "completed", "error",
     "waiting_parent_reply", "parent_replied"}

\* status enum of UpdateSubagentStatusArgumentsSchema
UpdateStatusEnum == {"success", "error", "running", "completed"}

\* exit codes the close event can deliver; "null" is a worker killed by a signal
CloseCodes == {"0", "1", "null"}

Answers == {"first", "second"}
Questions == {"question"}

\* the summary argument of updateSubagentStatus (z.string().optional()): not
\* given, an empty text, or a text
SummaryArgs == {"undefined", "", "worker"}

\* what spawn() does: it returns the child process, it throws (an argument it
\* rejects, a list of arguments too long), or it returns a child that reports
\* the failure with an "error" event (executable or working directory not
\* found, permission denied); runSubagent listens to "data" and "close" only
SpawnOutcomes == {"spawned", "throws", "error_event"}

\* the two document layouts the handlers know (checkMessage.ts: "fallback for
\* legacy structure"): top-level keys only, or with the `meta` section
Layouts == {"legacy", "nested"}

\* inputs of the interleaved runs: one answer text, the two kinds of status
\* update a worker sends (a final report with a summary, a progress report
\* without), a zero exit, a non-zero exit and a worker killed by a signal
RaceAnswers == {"first"}
RaceUpdates == {<<"completed", "worker">>, <<"running", "undefined">>}
RaceCloseCodes == {"0", "1", "null"}

MessageIds == 1..MaxMessages
InputIds == 0..MaxMessages

\* ------------------------------------------------------------- documents
NoMessage ==
    [messageId |-> 0, questionContent |-> "absent", hasQuestionTimestamp |-> FALSE,
     answerContent |-> "absent", hasAnswerTimestamp |-> FALSE,
     messageStatus |-> "absent"]

MissingDoc ==
    [kind |-> "missing", ident |-> FALSE, status |-> "absent",
     exitCode |-> "absent", endTime |-> "absent", summary |-> "absent",
     lastUpdated |-> FALSE, error |-> FALSE, topMessages |-> FALSE,
     meta |-> FALSE, metaStatus |-> "absent", metaHasMessages |-> FALSE,
     messages |-> << >>]

\* a document whose content does not parse ("{ invalid json }")
CorruptDoc == [MissingDoc EXCEPT !.kind = "corrupt"]

\* initial metadata written by runSubagent
InitialMetadata ==
    [MissingDoc EXCEPT !.kind = "json", !.ident = TRUE, !.status = "running",
                       !.exitCode = "null", !.endTime = "null",
                       !.summary = "null"]

\* the document at the start of a run, in either layout
InitialDocument(layout) ==
    IF layout = "nested"
    THEN [InitialMetadata EXCEPT !.meta = TRUE, !.metaStatus = "running",
                                 !.metaHasMessages = TRUE]
    ELSE InitialMetadata

\* JavaScript truthiness of a string-or-null-or-undefined key
Truthy(v) == v \notin {"absent", "null", ""}

\* const meta = metadata.meta || metadata
ChannelStatus(d) == IF d.meta THEN d.metaStatus ELSE d.status

\* messages array as seen through `metadata.meta || metadata`
ChannelHasMessages(d) == IF d.meta THEN d.metaHasMessages ELSE d.topMessages
ChannelMessages(d) == IF d.meta THEN d.messages ELSE << >>

\* Array.prototype.findIndex by messageId; 0 when there is none
RECURSIVE FindFrom(_, _, _)
FindFrom(msgs, messageId, i) ==
    IF i > Len(msgs) THEN 0
    ELSE IF msgs[i].messageId = messageId THEN i
    ELSE FindFrom(msgs, messageId, i + 1)

\* mutant: a messageId that no message has finds the first message
FindIndex_OrFirst(msgs, messageId) ==
    IF FindFrom(msgs, messageId, 1) = 0 /\ Len(msgs) > 0 THEN 1
    ELSE FindFrom(msgs, messageId, 1)

FindIndex(msgs, messageId) == FindFrom(msgs, messageId, 1)

\* ------------------------------------------------------------- handlers
\* Each handler is a function of the document it read: what it reports,
\* whether it writes, the document it writes and the message view it returns.
Outcome(result, write, doc, view) ==
    [result |-> result, write |-> write, doc |-> doc, view |-> view]

\* mutant: a handler that fails leaves a new document behind
Fails_CreatesDocument(result, d) == Outcome(result, TRUE, InitialMetadata, NoMessage)

\* a handler that throws before it writes
Fails(result, d) == Outcome(result, FALSE, d, NoMessage)

\* MetaFileContentSchema.safeParse(meta).success
SchemaAccepts(d) == d.meta /\ d.metaStatus \in MetaStatusEnum

\* parsed.data: zod objects drop the keys the schema does not name
SchemaData(d) ==
    [MissingDoc EXCEPT !.kind = "json", !.meta = TRUE,
                       !.metaStatus = d.metaStatus,
                       !.metaHasMessages = d.metaHasMessages,
                       !.messages = d.messages]

NewMessage(messageId, question) ==
    [messageId |-> messageId, questionContent |-> question,
     hasQuestionTimestamp |-> TRUE, answerContent |-> "absent",
     hasAnswerTimestamp |-> FALSE, messageStatus |-> "pending_parent_reply"]

\* mutant: the new message replaces the array instead of being pushed
PushMessage_Replace(msgs, msg) == << msg >>

\* meta.meta.messages.push(newMessage)
PushMessage(msgs, msg) == Append(msgs, msg)

askParentHandler(d, messageId, question) ==
    IF d.kind = "missing" THEN Fails("not_found", d)
    ELSE IF d.kind = "corrupt" THEN Fails("invalid_json", d)
    ELSE IF ~SchemaAccepts(d) THEN Fails("schema_mismatch", d)
    ELSE LET meta == SchemaData(d)
             msgs == IF meta.metaHasMessages THEN meta.messages ELSE << >>
         IN Outcome("ok", TRUE,
                    [meta EXCEPT !.metaHasMessages = TRUE,
                                 !.messages = PushMessage(msgs, NewMessage(messageId, question)),
                                 !.metaStatus = "waiting_parent_reply"],
                    NoMessage)

\* mutant: the status check before the reply is missing
ReplyAllowed_Always(msg) == TRUE

\* msg.messageStatus !== "pending_parent_reply" rejects the reply
ReplyAllowed(msg) == msg.messageStatus = "pending_parent_reply"

\* mutant: the reply changes the status of the message and drops the answer
Replied_NoAnswer(msg, answer) ==
    [msg EXCEPT !.hasAnswerTimestamp = TRUE, !.messageStatus = "parent_replied"]

Replied(msg, answer) ==
    [msg EXCEPT !.answerContent = answer, !.hasAnswerTimestamp = TRUE,
                !.messageStatus = "parent_replied"]

\* mutant: the answer is recorded on every pending message
replySubagentHandler_AllPending(d, messageId, answer) ==
    IF d.kind # "json" \/ ~d.meta \/ FindIndex(d.messages, messageId) = 0
    THEN Fails("message_not_found", d)
    ELSE IF ~ReplyAllowed(d.messages[FindIndex(d.messages, messageId)])
    THEN Fails("invalid_state", d)
    ELSE Outcome("ok", TRUE,
                 [d EXCEPT !.topMessages = TRUE,
                           !.messages = [i \in 1..Len(d.messages) |->
                                            IF ReplyAllowed(d.messages[i])
                                            THEN Replied(d.messages[i], answer)
                                            ELSE d.messages[i]],
                           !.status = "parent_replied",
                           !.metaStatus = "parent_replied"],
                 NoMessage)

replySubagentHandler(d, messageId, answer) ==
    IF d.kind = "missing" THEN Fails("not_found", d)
    ELSE IF d.kind = "corrupt" THEN Fails("invalid_json", d)
    ELSE IF ~d.meta THEN Fails("type_error", d)
    ELSE LET msgs == IF d.metaHasMessages THEN d.messages ELSE << >>
             i == FindIndex(msgs, messageId)
         IN IF i = 0 THEN Fails("message_not_found", d)
            ELSE IF ~ReplyAllowed(msgs[i]) THEN Fails("invalid_state", d)
            ELSE Outcome("ok", TRUE,
                         [d EXCEPT !.topMessages = TRUE,
                                   !.messages = [msgs EXCEPT ![i] = Replied(msgs[i], answer)],
                                   !.status = "parent_replied",
                                   !.metaStatus = "parent_replied"],
                         NoMessage)

\* mutant: every message that is no longer pending is acknowledged again
NeedsAcknowledgment_NotPending(msg) == msg.messageStatus # "pending_parent_reply"

\* message.messageStatus === "parent_replied" makes the poll acknowledge
NeedsAcknowledgment(msg) == msg.messageStatus = "parent_replied"

\* mutant: the acknowledgment is not recorded on the message
Acknowledged_Not(msg) == msg

\* meta.messages[messageIndex].messageStatus = "acknowledged_by_subagent"
Acknowledged(msg) == [msg EXCEPT !.messageStatus = "acknowledged_by_subagent"]

\* mutant: the output is prepared after the acknowledgment
Output_AfterAcknowledgment(msg) ==
    IF msg.messageStatus = "parent_replied"
    THEN [msg EXCEPT !.messageStatus = "acknowledged_by_subagent"] ELSE msg

\* the output is prepared from the message before it is acknowledged
Output(msg) == msg

\* mutant: the run status is not set back to running
StatusAfterAcknowledgment_Keep(d) == d

\* the status keys set back to running by an acknowledging poll
StatusAfterAcknowledgment(d) ==
    [d EXCEPT !.metaStatus = IF d.meta THEN "running" ELSE @,
              !.status = IF ~d.meta \/ Truthy(d.status) THEN "running" ELSE @]

checkMessageStatusHandler(d, messageId) ==
    IF d.kind = "missing" THEN Fails("not_found", d)
    ELSE IF d.kind = "corrupt" THEN Fails("invalid_json", d)
    ELSE IF ~ChannelHasMessages(d) THEN Fails("no_messages", d)
    ELSE LET msgs == ChannelMessages(d)
             i == FindIndex(msgs, messageId)
         IN IF i = 0 THEN Fails("message_not_found", d)
            ELSE IF NeedsAcknowledgment(msgs[i])
                 THEN Outcome("ok", TRUE,
                              [StatusAfterAcknowledgment(d) EXCEPT
                                   !.messages = [msgs EXCEPT ![i] = Acknowledged(msgs[i])]],
                              Output(msgs[i]))
                 ELSE Outcome("ok", FALSE, d, Output(msgs[i]))

\* mutant: every update to a terminal status stamps a new endTime
UpdateSetsEndTime_Always(d, status) == status \in TerminalStatuses

\* ["success", "error", "completed"].includes(status) && !updatedMetadata.endTime
UpdateSetsEndTime(d, status) == status \in TerminalStatuses /\ ~Truthy(d.endTime)

\* mutant: an update for a run without a document creates the document
updateSubagentStatus_Upsert(d, status, summary) ==
    IF d.kind = "corrupt" THEN Fails("invalid_json", d)
    ELSE LET metadata == IF d.kind = "missing" THEN InitialMetadata ELSE d
         IN Outcome("ok", TRUE,
                    [metadata EXCEPT
                         !.status = status,
                         !.summary = IF summary # "undefined" THEN summary ELSE @,
                         !.lastUpdated = TRUE,
                         !.endTime = IF UpdateSetsEndTime(metadata, status)
                                     THEN "t_update" ELSE @],
                    NoMessage)

updateSubagentStatus(d, status, summary) ==
    IF d.kind = "missing" THEN Fails("not_found", d)
    ELSE IF d.kind = "corrupt" THEN Fails("invalid_json", d)
    ELSE Outcome("ok", TRUE,
                 [d EXCEPT !.status = status,
                           !.summary = IF summary # "undefined" THEN summary ELSE @,
                           !.lastUpdated = TRUE,
                           !.endTime = IF UpdateSetsEndTime(d, status) THEN "t_update" ELSE @],
                 NoMessage)

\* mutant: an exit during a conversation with the parent leaves the status
CloseStatus_NotInConversation(currentMetadata, code) ==
    IF currentMetadata.status \in {"waiting_parent_reply", "parent_replied"}
    THEN currentMetadata.status
    ELSE IF code = "0" THEN "success" ELSE "error"

\* mutant: every exit is classified as an error
CloseStatus_AlwaysError(currentMetadata, code) == "error"

\* status written by the close handler for exit code `code`, given the
\* document it re-read
CloseStatus(currentMetadata, code) == IF code = "0" THEN "success" ELSE "error"

\* the log when the close handler reads it: the lines written at the start,
\* the worker's output, and the line the close handler has just written
LogAtClose == << "Starting", "Command", "Process exited" >>

\* the log when the catch block reads it: spawn threw before the first line
LogAtCatch == << "Error executing subagent" >>

\* logContent.split("\n").slice(-50).join("\n"), named by the last line it
\* holds; the empty text for an empty log
LogTail(log) == IF log = << >> THEN "" ELSE log[Len(log)]

\* mutant: the log tail replaces the summary at every non-zero exit
CloseSummary_AlwaysFromLog(currentMetadata, code) ==
    IF code # "0" THEN LogTail(LogAtClose) ELSE currentMetadata.summary

\* summary written by the close handler
CloseSummary(currentMetadata, code) ==
    IF code # "0" /\ ~Truthy(currentMetadata.summary)
    THEN LogTail(LogAtClose)
    ELSE currentMetadata.summary

\* mutant: with the document unreadable the close handler builds on nothing
CurrentMetadata_NoFallback(d) ==
    IF d.kind = "json" THEN d ELSE [MissingDoc EXCEPT !.kind = "json"]

\* mutant: the close handler builds on the metadata written at start
CurrentMetadata_Initial(d) == InitialMetadata

\* the document the close handler builds on: the one read back, or the
\* initial metadata when the read or the parse fails
CurrentMetadata(d) == IF d.kind = "json" THEN d ELSE InitialMetadata

\* mutant: the close handler does not record the exit code
closeHandler_KeepsExitCode(d, code) ==
    LET currentMetadata == CurrentMetadata(d)
    IN Outcome("ok", TRUE,
               [currentMetadata EXCEPT
                    !.status = CloseStatus(currentMetadata, code),
                    !.endTime = "t_exit",
                    !.summary = CloseSummary(currentMetadata, code)],
               NoMessage)

\* process.on("close"): `d` is the document read back, or unreadable
closeHandler(d, code) ==
    LET currentMetadata == CurrentMetadata(d)
    IN Outcome("ok", TRUE,
               [currentMetadata EXCEPT
                    !.status = CloseStatus(currentMetadata, code),
                    !.exitCode = code,
                    !.endTime = "t_exit",
                    !.summary = CloseSummary(currentMetadata, code)],
               NoMessage)

\* mutant: the catch block records an exit code of its own
ErrorMetadata_WithExitCode ==
    [InitialMetadata EXCEPT !.status = "error", !.error = TRUE,
                            !.exitCode = "1",
                            !.endTime = "t_error",
                            !.summary = LogTail(LogAtCatch)]

\* errorMetadata of the catch block: built on the initial metadata, exitCode
\* left as it was written at the start
ErrorMetadata ==
    [InitialMetadata EXCEPT !.status = "error", !.error = TRUE,
                            !.endTime = "t_error",
                            !.summary = LogTail(LogAtCatch)]

\* mutant: a missing document is not told apart from one without a status
StatusView_OfDocument(d) == d.status

\* whether the view carries a runId: the queried one in the not_found view,
\* the document's own otherwise
StatusViewRunId(d) == IF d.kind = "missing" THEN TRUE ELSE d.ident

\* summary of the view: the document's own; the not_found view has none
StatusViewSummary(d) == IF d.kind = "missing" THEN "absent" ELSE d.summary

\* status of the view checkSubagentStatus returns: the not_found view for a
\* missing document, the parsed document otherwise
StatusView(d) == IF d.kind = "missing" THEN "not_found" ELSE d.status

\* mutant: checkSubagentStatus acknowledges the latest parent_replied
\* message and sets the status back to running, as checkMessageStatus does
checkSubagentStatus_AutoAcknowledges(d) ==
    IF d.kind = "corrupt" THEN Fails("invalid_json", d)
    ELSE IF d.kind = "json" /\ ChannelStatus(d) = "parent_replied"
    THEN LET replied == {i \in 1..Len(d.messages) :
                            d.messages[i].messageStatus = "parent_replied"}
             latest == CHOOSE i \in replied : \A j \in replied : j <= i
         IN Outcome("ok", TRUE,
                    [d EXCEPT !.metaStatus = IF d.meta THEN "running" ELSE @,
                              !.status = IF d.meta THEN @ ELSE "running",
                              !.messages = IF replied = {} THEN @
                                           ELSE [@ EXCEPT ![latest] = Acknowledged(@)]],
                    NoMessage)
    ELSE Outcome("ok", FALSE, d, NoMessage)

\* mutant: an unparsable document is answered like a readable one
checkSubagentStatus_NeverThrows(d) == Outcome("ok", FALSE, d, NoMessage)

\* checkSubagentStatus reads and never writes; an unparsable document is
\* thrown to the caller
checkSubagentStatus(d) ==
    IF d.kind = "corrupt" THEN Fails("invalid_json", d)
    ELSE Outcome("ok", FALSE, d, NoMessage)

\* ------------------------------------------------------------------ state
VARIABLES
    store,      \* the persisted run document
    proc,       \* worker process: "idle", "running", "closing", "closed",
                \* "spawn_failed" (spawn threw), "crashed" (unhandled "error" event)
    nextId,     \* the next fresh messageId (uuidv4)
    inflight,   \* per handler: whether it has read and not yet written, and what it read
    ret,        \* what the handler that completed last returned
    tick,       \* flips whenever a handler completes
    replied,    \* messageIds for which replySubagent has reported success
    calls,      \* handler calls begun in an interleaved run
    logStream   \* the run's log: lines handed to the stream, lines still
                \* buffered in it, lines in the file, and the content the
                \* close handler read for the summary

vars == <<store, proc, nextId, inflight, ret, tick, replied, calls, logStream>>

Handlers == {"ask", "reply", "check", "update", "close"}

Idle == [busy |-> FALSE, doc |-> MissingDoc]

NoRet ==
    [op |-> "none", result |-> "none", messageId |-> 0, answer |-> "absent",
     arg |-> "absent", view |-> NoMessage, wrote |-> FALSE, runId |-> FALSE,
     summary |-> "absent"]

\* the log is followed line by line in SpecLog only
NoLog == [written |-> << >>, buffered |-> << >>, file |-> << >>,
          logContent |-> << >>]

Init ==
    /\ store = MissingDoc
    /\ proc = "idle"
    /\ nextId = 1
    /\ inflight = [h \in Handlers |-> Idle]
    /\ ret = NoRet
    /\ tick = FALSE
    /\ replied = {}
    /\ calls = 0
    /\ logStream = NoLog

\* a handler returns (or throws) outcome r: its write, if any, replaces the
\* whole document
Complete(op, r, messageId, answer, arg) ==
    /\ store' = IF r.write THEN r.doc ELSE store
    /\ ret' = [op |-> op, result |-> r.result, messageId |-> messageId,
               answer |-> answer, arg |-> arg, view |-> r.view, wrote |-> r.write,
               runId |-> op = "status" /\ r.result = "ok" /\ StatusViewRunId(store),
               summary |-> IF op = "status" /\ r.result = "ok"
                           THEN StatusViewSummary(store) ELSE "absent"]
    /\ tick' = ~tick
    /\ replied' = IF op = "reply" /\ r.result = "ok"
                  THEN replied \cup {messageId} ELSE replied

\* mutant: the runId is returned and the initial metadata is not written
RunSubagent_ReturnsBeforeWrite(layout) ==
    /\ proc = "idle"
    /\ proc' = "running"
    /\ Complete("run", Outcome("ok", FALSE, InitialDocument(layout), NoMessage),
                0, "absent", layout)
    /\ UNCHANGED <<nextId, inflight, calls, logStream>>

\* runSubagent: write the initial metadata, spawn the worker, return the runId
RunSubagent(layout) ==
    /\ proc = "idle"
    /\ proc' = "running"
    /\ Complete("run", Outcome("ok", TRUE, InitialDocument(layout), NoMessage),
                0, "absent", layout)
    /\ UNCHANGED <<nextId, inflight, calls, logStream>>

\* runSubagent when spawn fails.  If spawn throws, the catch block writes
\* errorMetadata and throws the error on to the caller.  If the child reports
\* the failure with an "error" event, runSubagent has returned the runId, no
\* listener takes the event and no "close" handler runs: the document stays
\* as written at the start.
RunSubagentSpawnFails(spawn) ==
    /\ proc = "idle"
    /\ spawn # "spawned"
    /\ proc' = IF spawn = "throws" THEN "spawn_failed" ELSE "crashed"
    /\ Complete("run",
                IF spawn = "throws"
                THEN Outcome("spawn_error", TRUE, ErrorMetadata, NoMessage)
                ELSE Outcome("ok", TRUE, InitialMetadata, NoMessage),
                0, "absent", spawn)
    /\ UNCHANGED <<nextId, inflight, calls, logStream>>

\* ---- handlers run without another handler in between (each call awaited)
CheckSubagentStatus ==
    /\ Complete("status", checkSubagentStatus(store), 0, "absent", StatusView(store))
    /\ UNCHANGED <<proc, nextId, inflight, calls, logStream>>

AskParent(question) ==
    /\ nextId <= MaxMessages
    /\ LET r == askParentHandler(store, nextId, question)
       IN /\ Complete("ask", r, IF r.result = "ok" THEN nextId ELSE 0, "absent", question)
          /\ nextId' = IF r.result = "ok" THEN nextId + 1 ELSE nextId
    /\ UNCHANGED <<proc, inflight, calls, logStream>>

ReplySubagent(messageId, answer) ==
    /\ Complete("reply", replySubagentHandler(store, messageId, answer),
                messageId, answer, "absent")
    /\ UNCHANGED <<proc, nextId, inflight, calls, logStream>>

CheckMessageStatus(messageId) ==
    /\ Complete("check", checkMessageStatusHandler(store, messageId),
                messageId, "absent", "absent")
    /\ UNCHANGED <<proc, nextId, inflight, calls, logStream>>

UpdateSubagentStatus(status, summary) ==
    /\ Complete("update", updateSubagentStatus(store, status, summary),
                0, summary, status)
    /\ UNCHANGED <<proc, nextId, inflight, calls, logStream>>

ProcessClose(code) ==
    /\ proc = "running"
    /\ proc' = "closed"
    /\ Complete("close", closeHandler(store, code), 0, "absent", code)
    /\ UNCHANGED <<nextId, inflight, calls, logStream>>

Next ==
    \/ \E layout \in Layouts : RunSubagent(layout)
    \/ \E spawn \in SpawnOutcomes : RunSubagentSpawnFails(spawn)
    \/ CheckSubagentStatus
    \/ \E question \in Questions : AskParent(question)
    \/ \E messageId \in InputIds, answer \in Answers : ReplySubagent(messageId, answer)
    \/ \E messageId \in InputIds : CheckMessageStatus(messageId)
    \/ \E status \in UpdateStatusEnum, summary \in SummaryArgs :
           UpdateSubagentStatus(status, summary)
    \/ \E code \in CloseCodes : ProcessClose(code)

Spec == Init /\ [][Next]_vars

\* ---- handlers interleaved at the await between readFile and writeFile
Read(h) ==
    /\ ~inflight[h].busy
    /\ Cardinality({k \in Handlers : inflight[k].busy}) < MaxInFlight
    /\ calls < MaxCalls
    /\ calls' = calls + 1
    /\ inflight' = [inflight EXCEPT ![h] = [busy |-> TRUE, doc |-> store]]

Written(h) ==
    /\ inflight[h].busy
    /\ UNCHANGED calls
    /\ inflight' = [inflight EXCEPT ![h] = Idle]

AskParentRead ==
    /\ nextId <= MaxMessages
    /\ Read("ask")
    /\ UNCHANGED <<store, proc, nextId, ret, tick, replied, logStream>>

AskParentWrite(question) ==
    /\ nextId <= MaxMessages
    /\ Written("ask")
    /\ LET r == askParentHandler(inflight["ask"].doc, nextId, question)
       IN /\ Complete("ask", r, IF r.result = "ok" THEN nextId ELSE 0, "absent", question)
          /\ nextId' = IF r.result = "ok" THEN nextId + 1 ELSE nextId
    /\ UNCHANGED <<proc, logStream>>

ReplySubagentRead ==
    /\ Read("reply")
    /\ UNCHANGED <<store, proc, nextId, ret, tick, replied, logStream>>

ReplySubagentWrite(messageId, answer) ==
    /\ Written("reply")
    /\ Complete("reply", replySubagentHandler(inflight["reply"].doc, messageId, answer),
                messageId, answer, "absent")
    /\ UNCHANGED <<proc, nextId, logStream>>

CheckMessageStatusRead ==
    /\ Read("check")
    /\ UNCHANGED <<store, proc, nextId, ret, tick, replied, logStream>>

CheckMessageStatusWrite(messageId) ==
    /\ Written("check")
    /\ Complete("check", checkMessageStatusHandler(inflight["check"].doc, messageId),
                messageId, "absent", "absent")
    /\ UNCHANGED <<proc, nextId, logStream>>

UpdateSubagentStatusRead ==
    /\ Read("update")
    /\ UNCHANGED <<store, proc, nextId, ret, tick, replied, logStream>>

UpdateSubagentStatusWrite(status, summary) ==
    /\ Written("update")
    /\ Complete("update", updateSubagentStatus(inflight["update"].doc, status, summary),
                0, summary, status)
    /\ UNCHANGED <<proc, nextId, logStream>>

ProcessCloseRead ==
    /\ proc = "running"
    /\ proc' = "closing"
    /\ Read("close")
    /\ UNCHANGED <<store, nextId, ret, tick, replied, logStream>>

ProcessCloseWrite(code) ==
    /\ proc = "closing"
    /\ proc' = "closed"
    /\ Written("close")
    /\ Complete("close", closeHandler(inflight["close"].doc, code), 0, "absent", code)
    /\ UNCHANGED <<nextId, logStream>>

RunSubagentRace(layout) ==
    /\ RunSubagent(layout)

NextRace ==
    \/ \E layout \in Layouts : RunSubagentRace(layout)
    \/ AskParentRead
    \/ \E question \in Questions : AskParentWrite(question)
    \/ ReplySubagentRead
    \/ \E messageId \in InputIds, answer \in RaceAnswers : ReplySubagentWrite(messageId, answer)
    \/ CheckMessageStatusRead
    \/ \E messageId \in InputIds : CheckMessageStatusWrite(messageId)
    \/ UpdateSubagentStatusRead
    \/ \E u \in RaceUpdates : UpdateSubagentStatusWrite(u[1], u[2])
    \/ ProcessCloseRead
    \/ \E code \in RaceCloseCodes : ProcessCloseWrite(code)

SpecRace == Init /\ [][NextRace]_vars

\* once the close event has fired, the close handler's awaited steps (flush
\* of the log, read, write) complete; nothing else is assumed to happen
SpecRaceFair ==
    SpecRace /\ WF_vars(\E code \in RaceCloseCodes : ProcessCloseWrite(code))

\* ------------------------------------------- faults of the stored document
\* The document is a file other programs can write and remove: its content
\* is replaced by text that is not JSON, or the file is removed.
DocumentDamaged ==
    /\ store.kind = "json"
    /\ store' = CorruptDoc
    /\ UNCHANGED <<proc, nextId, inflight, ret, tick, replied, calls, logStream>>

DocumentRemoved ==
    /\ store.kind # "missing"
    /\ store' = MissingDoc
    /\ UNCHANGED <<proc, nextId, inflight, ret, tick, replied, calls, logStream>>

\* the calls of Spec on a run whose worker was spawned, with the faults
NextFault ==
    \/ \E layout \in Layouts : RunSubagent(layout)
    \/ CheckSubagentStatus
    \/ \E question \in Questions : AskParent(question)
    \/ \E messageId \in InputIds, answer \in RaceAnswers : ReplySubagent(messageId, answer)
    \/ \E messageId \in InputIds : CheckMessageStatus(messageId)
    \/ \E update \in RaceUpdates : UpdateSubagentStatus(update[1], update[2])
    \/ \E code \in RaceCloseCodes : ProcessClose(code)
    \/ DocumentDamaged
    \/ DocumentRemoved

SpecFault == Init /\ [][NextFault]_vars

\* ------------------------------------------------------- the log of a run
\* runSubagent and the worker's output write to a stream on the log file;
\* the stream keeps what it was handed in order and writes it to the file
\* later.  The close handler reads the file for the summary.

\* the worker's output arrives in chunks of its two streams
OutputStreams == {"stdout", "stderr"}

\* logContent.split("\n").slice(-50): the split content ends with the empty
\* text after the final newline, so the tail holds the last 49 lines
TailLines == 49

LastLines(content, n) ==
    IF Len(content) <= n THEN content
    ELSE SubSeq(content, Len(content) - n + 1, Len(content))

\* logStream.write(line)
LogWrite(l, line) ==
    [l EXCEPT !.written = Append(@, line), !.buffered = Append(@, line)]

\* mutant: the close handler does not wait for the stream
LogEnded_NoWait(l) == TRUE

\* await new Promise((resolve) => logStream.end(resolve)): resolved when the
\* stream has written everything it was handed
LogEnded(l) == l.buffered = << >>

\* whether the close handler reads the log: code !== 0 && !finalSummary
ReadsLog(d, code) == code # "0" /\ ~Truthy(CurrentMetadata(d).summary)

\* the close handler with the content it read from the log file
closeHandlerOnLog(d, code, logContent) ==
    LET r == closeHandler(d, code)
    IN IF ReadsLog(d, code)
       THEN [r EXCEPT !.doc.summary = LogTail(LastLines(logContent, TailLines))]
       ELSE r

\* runSubagent: initial metadata, spawn, the two lines written at the start
RunSubagentLogged ==
    /\ proc = "idle"
    /\ proc' = "running"
    /\ Complete("run", Outcome("ok", TRUE, InitialMetadata, NoMessage),
                0, "absent", "legacy")
    /\ logStream' = LogWrite(LogWrite(logStream, "Starting"), "Command")
    /\ UNCHANGED <<nextId, inflight, calls>>

\* process.stdout.on("data") / process.stderr.on("data")
WorkerOutput(stream) ==
    /\ proc = "running"
    /\ Len(logStream.written) < 2 + MaxOutputChunks
    /\ logStream' = LogWrite(logStream, stream)
    /\ UNCHANGED <<store, proc, nextId, inflight, ret, tick, replied, calls>>

\* the stream writes the oldest line it holds to the file
LogStreamFlush ==
    /\ logStream.buffered # << >>
    /\ logStream' = [logStream EXCEPT !.file = Append(@, Head(logStream.buffered)),
                                      !.buffered = Tail(@)]
    /\ UNCHANGED <<store, proc, nextId, inflight, ret, tick, replied, calls>>

\* process.on("close"), up to the await: the streams of the worker are
\* closed, the exit line is handed to the log stream
ProcessCloseEvent ==
    /\ proc = "running"
    /\ proc' = "closing"
    /\ logStream' = LogWrite(logStream, "Process exited")
    /\ UNCHANGED <<store, nextId, inflight, ret, tick, replied, calls>>

\* process.on("close"), after the await: read the document, read the log
\* for the summary if there is none, write the document
ProcessCloseLogged(code) ==
    /\ proc = "closing"
    /\ LogEnded(logStream)
    /\ proc' = "closed"
    /\ Complete("close", closeHandlerOnLog(store, code, logStream.file),
                0, "absent", code)
    /\ logStream' = [logStream EXCEPT
                         !.logContent = IF ReadsLog(store, code)
                                        THEN logStream.file ELSE @]
    /\ UNCHANGED <<nextId, inflight, calls>>

NextLog ==
    \/ RunSubagentLogged
    \/ \E stream \in OutputStreams : WorkerOutput(stream)
    \/ LogStreamFlush
    \/ \E update \in RaceUpdates : UpdateSubagentStatus(update[1], update[2])
    \/ ProcessCloseEvent
    \/ \E code \in RaceCloseCodes : ProcessCloseLogged(code)

SpecLog == Init /\ [][NextLog]_vars

\* ------------------------------------------ the check_subagent_status tool
\* The tool formats the object checkSubagentStatus returns; it reads the
\* top-level status and the top-level messages array of the document (the
\* flat layout: no `meta` section, `messages` next to `status`).

\* statuses of the documents formatted: the three the formatting tells
\* apart and a terminal one
ViewStatuses == {"running", "waiting_parent_reply", "parent_replied", "completed"}

\* answers recorded on a message: replySubagent's `answer` is z.string(), so
\* an empty answer is one
ViewAnswers == {"", "first"}

\* a message as the handlers leave it: asked, replied to, acknowledged
ViewShapes ==
    {<<"pending_parent_reply", "absent">>}
        \cup ({"parent_replied", "acknowledged_by_subagent"} \X ViewAnswers)

ViewMessage(messageId, shape) ==
    LET asked == NewMessage(messageId, "question")
    IN IF shape[1] = "pending_parent_reply" THEN asked
       ELSE IF shape[1] = "parent_replied" THEN Replied(asked, shape[2])
       ELSE Acknowledged(Replied(asked, shape[2]))

\* messages arrays in the order the messages were appended
ViewMessageSeqs ==
    UNION {{[i \in 1..n |-> ViewMessage(i, f[i])] : f \in [1..n -> ViewShapes]} :
           n \in 0..MaxViewMessages}

\* flat documents: a status, and a top-level messages array or none
FlatDocuments ==
    {[InitialMetadata EXCEPT !.status = status, !.topMessages = TRUE,
                             !.messages = msgs] :
         status \in ViewStatuses, msgs \in ViewMessageSeqs}
        \cup {[InitialMetadata EXCEPT !.status = status] : status \in ViewStatuses}

\* Array.isArray(statusObject.messages): checkSubagentStatus returns the
\* document, with `messages: metadata.messages ?? []` for the two
\* conversation statuses
StatusObjectHasMessages(d) ==
    d.topMessages \/ d.status \in {"waiting_parent_reply", "parent_replied"}

\* m.messageStatus === "pending_parent_reply"
IsPendingQuestion(m) == m.messageStatus = "pending_parent_reply"

\* mutant: an answered message counts whatever its answer is
IsAnswered_AnyAnswer(m) ==
    m.messageStatus \in {"acknowledged_by_subagent", "parent_replied"}

\* m.answerContent && (acknowledged_by_subagent || parent_replied)
IsAnswered(m) ==
    /\ Truthy(m.answerContent)
    /\ m.messageStatus \in {"acknowledged_by_subagent", "parent_replied"}

\* messages.slice().reverse().find(...): scan from the last message down;
\* 0 when find returns undefined
RECURSIVE FindLastPending(_, _)
FindLastPending(msgs, i) ==
    IF i = 0 THEN 0
    ELSE IF IsPendingQuestion(msgs[i]) THEN i
    ELSE FindLastPending(msgs, i - 1)

RECURSIVE FindLastAnswered(_, _)
FindLastAnswered(msgs, i) ==
    IF i = 0 THEN 0
    ELSE IF IsAnswered(msgs[i]) THEN i
    ELSE FindLastAnswered(msgs, i - 1)

\* mutant: the scan is not reversed, the oldest pending message is found
PendingMessage_Oldest(msgs) ==
    IF \E i \in 1..Len(msgs) : IsPendingQuestion(msgs[i])
    THEN CHOOSE i \in 1..Len(msgs) :
             /\ IsPendingQuestion(msgs[i])
             /\ \A j \in 1..(i - 1) : ~IsPendingQuestion(msgs[j])
    ELSE 0

PendingMessage(msgs) == FindLastPending(msgs, Len(msgs))

RepliedMessage(msgs) == FindLastAnswered(msgs, Len(msgs))

NoDetails == [section |-> "none", message |-> NoMessage]

\* "Bi-directional communication details": the section the output gets and
\* the message it shows
CommunicationDetails(d) ==
    IF StatusObjectHasMessages(d) /\ Len(d.messages) > 0
    THEN IF d.status = "waiting_parent_reply"
         THEN LET i == PendingMessage(d.messages)
              IN IF i = 0 THEN NoDetails
                 ELSE [section |-> "question", message |-> d.messages[i]]
         ELSE IF d.status \in {"parent_replied", "running"}
         THEN LET i == RepliedMessage(d.messages)
              IN IF i = 0 THEN NoDetails
                 ELSE [section |-> "last_interaction", message |-> d.messages[i]]
         ELSE NoDetails
    ELSE NoDetails

\* a flat document on disk, no call made yet
InitView ==
    /\ store \in FlatDocuments
    /\ proc = "idle"
    /\ nextId = 1
    /\ inflight = [h \in Handlers |-> Idle]
    /\ ret = NoRet
    /\ tick = FALSE
    /\ replied = {}
    /\ calls = 0
    /\ logStream = NoLog

\* the check_subagent_status tool: `arg` is the section of the output,
\* `view` and `messageId` the message shown in it
CheckSubagentStatusTool ==
    /\ LET r == checkSubagentStatus(store)
           details == CommunicationDetails(store)
       IN Complete("check_subagent_status",
                   Outcome(r.result, r.write, r.doc, details.message),
                   details.message.messageId, "absent", details.section)
    /\ UNCHANGED <<proc, nextId, inflight, calls, logStream>>

NextView == CheckSubagentStatusTool

SpecView == InitView /\ [][NextView]_vars

\* ------------------------------------------------------- reading a state
\* the message with this messageId in the communication section, if any
MessageOf(d, messageId) ==
    LET i == FindIndex(d.messages, messageId)
    IN IF i = 0 THEN NoMessage ELSE d.messages[i]

\* a handler completes in this step
Completes(op) == tick' # tick /\ ret'.op = op

C2_TerminalStatusPreserved ==
    [][(Completes("close") /\ store.status \in TerminalStatuses)
          => store'.status = store.status]_vars

\* ------------------------------------------------------------------ C3
Rank(messageStatus) ==
    CASE messageStatus = "pending_parent_reply" -> 1
      [] messageStatus = "parent_replied" -> 2
      [] messageStatus = "acknowledged_by_subagent" -> 3
      [] OTHER -> 0

\* each message still in e has the status it had in d or the next one
ForwardOnly(d, e) ==
    \A id \in MessageIds :
        LET before == Rank(MessageOf(d, id).messageStatus)
            after == Rank(MessageOf(e, id).messageStatus)
        IN (before # 0 /\ after # 0) => (after = before \/ after = before + 1)

\* the handler that completes in this step read the document as it is now
\* persisted: nothing was written between its read and its write
CompletesOnCurrentRead(h) == Completes(h) /\ inflight[h].doc = store

\* C3 as claimed: in every execution, interleaved reads and writes included,
\* the persisted messageStatus of a message never moves backward.
C3_ForwardOnlyAlways == [][ForwardOnly(store, store')]_vars

\* C3 amended: a write based on a read of the document as currently
\* persisted leaves each messageStatus unchanged or moves it one step
\* forward; only a write based on a stale read moves one backward.
C3_ForwardOnlyOnCurrentRead ==
    [][\A h \in Handlers : CompletesOnCurrentRead(h) => ForwardOnly(store, store')]_vars

\* a message has gone through both forward steps in an interleaved run
C3_Witness ==
    /\ ret.op = "check" /\ ret.wrote
    /\ MessageOf(store, ret.messageId).messageStatus = "acknowledged_by_subagent"
    /\ calls > 0

\* ------------------------------------------------------------------ C4
\* C4: replySubagent on a message that is parent_replied or
\* acknowledged_by_subagent fails with the invalid-state error and leaves
\* the document as it was, so the first answer stays.
C4_ReplyToNonPendingRejected ==
    [][(Completes("reply")
          /\ MessageOf(store, ret'.messageId).messageStatus
                \in {"parent_replied", "acknowledged_by_subagent"})
        => (ret'.result = "invalid_state" /\ ~ret'.wrote /\ store' = store)]_vars

\* a second reply was rejected and the first answer is still persisted
C4_Witness ==
    /\ ret.op = "reply" /\ ret.result = "invalid_state" /\ ret.answer = "second"
    /\ MessageOf(store, ret.messageId).answerContent = "first"

C7_PollIsPureRead ==
    [][(Completes("check")
          /\ MessageOf(store, ret'.messageId).messageStatus
                \in {"pending_parent_reply", "acknowledged_by_subagent"})
        => (ret'.result = "ok" /\ ~ret'.wrote /\ store' = store)]_vars

\* a poll of a still pending question returned it and wrote nothing
C7_Witness ==
    /\ ret.op = "check" /\ ret.result = "ok" /\ ~ret.wrote
    /\ ret.view.messageStatus = "pending_parent_reply"
    /\ store.metaStatus = "waiting_parent_reply"

\* ------------------------------------------------------------------ C8
\* C8: once the persisted status is success, error or completed, no later
\* operation makes it a non-terminal value.
C8_TerminalStatusIsFinal ==
    [][store.status \in TerminalStatuses => store'.status \in TerminalStatuses]_vars

\* ------------------------------------------------------------------ C9
\* every message of d is still in e, at the same place
KeepsMessages(d, e) ==
    /\ Len(e.messages) >= Len(d.messages)
    /\ \A i \in 1..Len(d.messages) : e.messages[i].messageId = d.messages[i].messageId

\* C9 as claimed: in every execution, overlapping read-modify-writes
\* included, no persisted message is removed and messages never gets shorter.
C9_MessagesOnlyGrowAlways == [][KeepsMessages(store, store')]_vars

\* C9 amended: a write based on a read of the document as currently
\* persisted keeps every persisted message; only a write based on a stale
\* read removes one.
C9_MessagesKeptOnCurrentRead ==
    [][\A h \in Handlers : CompletesOnCurrentRead(h) => KeepsMessages(store, store')]_vars

\* askParent appended a second message behind the first in an interleaved run
C9_Witness ==
    /\ ret.op = "ask" /\ ret.result = "ok"
    /\ Len(store.messages) = 2
    /\ store.messages[2].messageId = ret.messageId

Recorded(v) == v \notin {"absent", "null"}

HasExitRecord(d) == Recorded(d.exitCode) /\ Recorded(d.endTime)

TerminalRecord(d) == HasExitRecord(d) /\ d.status \in TerminalStatuses

\* C11 as claimed: once the close handler has persisted a terminal status, an
\* exit code and an endTime, they stay through the write of every askParent,
\* replySubagent, checkMessageStatus or updateSubagentStatus call that read
\* the document before the close handler wrote (what it read holds no exit
\* record).
C11_TerminalRecordStays ==
    [][\A h \in Handlers \ {"close"} :
          (/\ Completes(h)
           /\ proc = "closed" /\ TerminalRecord(store)
           /\ ~HasExitRecord(inflight[h].doc))
          => TerminalRecord(store')]_vars

\* C11 amended: the close handler's write persists a terminal status, an
\* endTime and the code of the close event as exitCode; every write of
\* replySubagent, checkMessageStatus or updateSubagentStatus carries the
\* exitCode, and the endTime if there is one, of the document that call
\* read: read after the close handler's write they are kept, read before it
\* they are put back to null (last writer wins).
C11_ExitRecordFollowsTheRead ==
    [][/\ Completes("close")
            => /\ store'.status \in TerminalStatuses
               /\ store'.exitCode = ret'.arg
               /\ Recorded(store'.endTime)
       /\ \A h \in {"reply", "check", "update"} :
            (Completes(h) /\ ret'.wrote)
            => /\ store'.exitCode = inflight[h].doc.exitCode
               /\ Recorded(inflight[h].doc.endTime)
                    => store'.endTime = inflight[h].doc.endTime
      ]_vars

\* an updateSubagentStatus that read before the close handler wrote has
\* written after it: the exit code is null again and the status not terminal
C11_Witness ==
    /\ proc = "closed"
    /\ ret.op = "update" /\ ret.wrote
    /\ store.exitCode = "null" /\ store.endTime = "null"
    /\ store.status = "running"

\* ----------------------------------------------------------------- C12
\* C12: when the worker exits while the status is not success, error or
\* completed, the close handler persists status success for exit code 0 and
\* error for any other code, and persists that code as exitCode.
C12_ExitClassifiedByCode ==
    [][(Completes("close") /\ store.status \notin TerminalStatuses)
        => /\ store'.status = IF ret'.arg = "0" THEN "success" ELSE "error"
           /\ store'.exitCode = ret'.arg]_vars

\* a worker that was never reported terminal has exited with code 0 and the
\* document says success with exitCode 0
C12_Witness ==
    /\ ret.op = "close" /\ ret.arg = "0"
    /\ ~store.lastUpdated
    /\ store.status = "success" /\ store.exitCode = "0"

\* ----------------------------------------------------------------- C13
\* C13: the close handler replaces the summary only at a non-zero exit and
\* only when the document it re-read holds no summary (none, null or the
\* empty text), and then with the tail of the log; a summary the worker set
\* is kept; at exit code 0 the summary stays as it was, null included; after
\* a non-zero exit the summary is not empty.
C13_SummaryFromLogTailOnlyWhenNone ==
    [][Completes("close")
        => /\ store'.summary # store.summary
                => /\ ret'.arg # "0"
                   /\ ~Truthy(store.summary)
                   /\ store'.summary = "Process exited"
           /\ Truthy(store.summary) => store'.summary = store.summary
           /\ ret'.arg = "0" => store'.summary = store.summary
           /\ ret'.arg # "0" => Truthy(store'.summary)]_vars

\* the worker had reported a summary and then exited with code 1: the
\* summary is still the worker's
C13_Witness ==
    /\ ret.op = "close" /\ ret.arg = "1"
    /\ store.status = "error"
    /\ store.summary = "worker"

\* ----------------------------------------------------------------- C14
\* C14: once endTime holds a value, no later operation changes it: the close
\* handler keeps an endTime set by updateSubagentStatus, and
\* updateSubagentStatus keeps the close handler's.
C14_EndTimeSetOnce ==
    [][Recorded(store.endTime) => store'.endTime = store.endTime]_vars

\* ----------------------------------------------------------------- C15
\* C15: when runSubagent returns the run identifier, the document is
\* persisted with status running and exitCode, endTime and summary null; and
\* checkSubagentStatus called at any time after runSubagent has returned
\* does not yield the not_found view.
C15_DocumentPersistedBeforeReturn ==
    [][/\ (Completes("run") /\ ret'.result = "ok")
            => /\ store'.kind = "json"
               /\ store'.status = "running"
               /\ store'.exitCode = "null"
               /\ store'.endTime = "null"
               /\ store'.summary = "null"
       /\ (Completes("status") /\ proc \notin {"idle", "spawn_failed"})
            => (ret'.result = "ok" /\ ret'.arg # "not_found")
      ]_vars

\* checkSubagentStatus right after runSubagent returned: the view is running
C15_Witness ==
    /\ proc = "running"
    /\ ret.op = "status" /\ ret.result = "ok" /\ ret.arg = "running"
    /\ store.exitCode = "null" /\ store.endTime = "null" /\ store.summary = "null"

\* ----------------------------------------------------------------- C16
\* C16: runSubagent never throws a spawn failure to its caller: whatever
\* spawn does, the call completes normally and returns the run identifier.
C16_SpawnFailureNotThrown ==
    ret.op = "run" => ret.result = "ok"

\* ----------------------------------------------------------------- C17
\* C17: when spawn fails, by throwing or by the child's "error" event, the
\* document persisted when runSubagent is done has status error, a summary,
\* an endTime and exitCode null: it is not left in status running.
C17_SpawnFailurePersistedAsError ==
    (ret.op = "run" /\ ret.arg \in SpawnOutcomes \ {"spawned"})
        => /\ store.status = "error"
           /\ Truthy(store.summary)
           /\ Recorded(store.endTime)
           /\ store.exitCode = "null"

C20_MissingRunNotFound ==
    [][\A op \in {"ask", "reply", "check"} :
          (Completes(op) /\ store.kind = "missing")
          => /\ ret'.result = "not_found"
             /\ ~ret'.wrote
             /\ store' = MissingDoc]_vars

\* a message call for a run that was never started failed with not-found
\* and there is no document
C20_Witness ==
    /\ proc = "idle"
    /\ ret.op \in {"ask", "reply", "check"}
    /\ ret.result = "not_found"
    /\ store = MissingDoc

C22_NotFoundStability ==
    [][(Completes("status") /\ store.kind = "missing")
        => /\ ret'.result = "ok"
           /\ ret'.arg = "not_found"
           /\ ret'.runId
           /\ ~ret'.wrote
           /\ store' = MissingDoc]_vars

\* the status of a run that was never started was asked for: not_found, and
\* there is still no document
C22_Witness ==
    /\ proc = "idle"
    /\ ret.op = "status" /\ ret.result = "ok"
    /\ ret.arg = "not_found" /\ ret.runId
    /\ store = MissingDoc

InConversation(d) ==
    \/ d.status \in {"waiting_parent_reply", "parent_replied"}
    \/ d.metaStatus \in {"waiting_parent_reply", "parent_replied"}

C25_EventuallyTerminalForGood ==
    (proc = "closing") ~> [](TerminalRecord(store))

\* C25 amended: once the worker has terminated, the close handler eventually
\* writes, and what it writes holds status success or error, an endTime and,
\* as exitCode, the code of the close event, which is null for a worker
\* killed by a signal.
C25_CloseHandlerEventuallyWrites ==
    (proc = "closing")
        ~> (/\ proc = "closed" /\ ret.op = "close"
            /\ store.status \in {"success", "error"}
            /\ Recorded(store.endTime)
            /\ store.exitCode = ret.arg)

\* a worker killed by a signal: the close handler has written status error
\* and an endTime, and the exitCode is null
C25_Witness ==
    /\ proc = "closed"
    /\ ret.op = "close" /\ ret.arg = "null"
    /\ store.status = "error"
    /\ store.exitCode = "null"
    /\ Recorded(store.endTime)

\* ----------------------------------------------------------------- C26
\* C26: updateSubagentStatus for a run identifier that has no document
\* reports not_found and writes nothing: there is still no document.
C26_UpdateOfMissingRunNotFound ==
    [][(Completes("update") /\ store.kind = "missing")
        => /\ ret'.result = "not_found"
           /\ ~ret'.wrote
           /\ store' = MissingDoc]_vars

\* a status update for a run that was never started: not_found, no document
C26_Witness ==
    /\ proc = "idle"
    /\ ret.op = "update" /\ ret.arg \in TerminalStatuses
    /\ ret.result = "not_found"
    /\ store = MissingDoc

\* ----------------------------------------------------------------- C27
\* C27: updateSubagentStatus on an existing run sets the status to the one
\* given, replaces the summary only when a summary argument is given, sets
\* endTime only when the new status is terminal and no endTime is recorded,
\* and leaves messages, exitCode and the identity fields as they were; a
\* getStatus right after it returns the updated status and summary.
C27_UpdateFrame ==
    [][/\ (Completes("update") /\ store.kind = "json")
           => /\ ret'.result = "ok"
              /\ store'.status = ret'.arg
              /\ store'.summary = IF ret'.answer # "undefined"
                                  THEN ret'.answer ELSE store.summary
              /\ IF ret'.arg \in TerminalStatuses /\ ~Recorded(store.endTime)
                 THEN store'.endTime = "t_update"
                 ELSE store'.endTime = store.endTime
              /\ store' = [store EXCEPT !.status = store'.status,
                                        !.summary = store'.summary,
                                        !.endTime = store'.endTime,
                                        !.lastUpdated = TRUE]
       /\ (Completes("status") /\ ret.op = "update" /\ ret.result = "ok")
           => /\ ret'.result = "ok"
              /\ ret'.arg = ret.arg
              /\ ret'.summary = store.summary
              /\ ret.answer # "undefined" => ret'.summary = ret.answer]_vars

\* getStatus right after an update to completed with a summary, on a run
\* whose worker had already exited: the exit's endTime and exitCode stand
C27_Witness ==
    /\ ret.op = "status" /\ ret.result = "ok"
    /\ ret.arg = "completed" /\ ret.summary = "worker"
    /\ store.status = "completed" /\ store.summary = "worker"
    /\ store.endTime = "t_exit" /\ store.exitCode = "0"
    /\ store.lastUpdated

\* ----------------------------------------------------------------- C28
\* positions of the messages with a property, and the last of them
Positions(msgs, Has(_)) == {i \in 1..Len(msgs) : Has(msgs[i])}

Last(S) == CHOOSE i \in S : \A j \in S : j <= i

\* C28: when the run status is waiting_parent_reply, the question awaiting
\* reply in the status view is the pending message appended last, whatever
\* the messages before and after it are; with no pending message the view
\* has no such section.
C28_LatestPendingSurfaced ==
    (ret.op = "check_subagent_status" /\ store.status = "waiting_parent_reply")
        => LET pending == Positions(store.messages, IsPendingQuestion)
           IN IF pending = {}
              THEN ret.arg = "none"
              ELSE /\ ret.arg = "question"
                   /\ ret.view = store.messages[Last(pending)]

\* two pending questions, then an answered one: the second is shown
C28_Witness ==
    /\ ret.op = "check_subagent_status"
    /\ store.status = "waiting_parent_reply"
    /\ Len(store.messages) = 3
    /\ store.messages[1].messageStatus = "pending_parent_reply"
    /\ store.messages[2].messageStatus = "pending_parent_reply"
    /\ store.messages[3].messageStatus = "parent_replied"
    /\ ret.arg = "question" /\ ret.messageId = 2

\* ----------------------------------------------------------------- C29
\* C29: when the run status is running or parent_replied, the last
\* interaction in the status view is the message appended last among those
\* with a non-empty answer and status acknowledged_by_subagent or
\* parent_replied; with no such message the view has no such section.
C29_LatestAnsweredSurfaced ==
    (ret.op = "check_subagent_status" /\ store.status \in {"running", "parent_replied"})
        => LET answered(m) ==
                   /\ m.answerContent \notin {"absent", "null", ""}
                   /\ m.messageStatus \in {"acknowledged_by_subagent", "parent_replied"}
               found == Positions(store.messages, answered)
           IN IF found = {}
              THEN ret.arg = "none"
              ELSE /\ ret.arg = "last_interaction"
                   /\ ret.view = store.messages[Last(found)]

\* an acknowledged answer, then a reply with an empty answer, then a
\* pending question: the first is the last interaction
C29_Witness ==
    /\ ret.op = "check_subagent_status"
    /\ store.status = "running"
    /\ Len(store.messages) = 3
    /\ store.messages[1].messageStatus = "acknowledged_by_subagent"
    /\ store.messages[1].answerContent = "first"
    /\ store.messages[2].messageStatus = "parent_replied"
    /\ store.messages[2].answerContent = ""
    /\ store.messages[3].messageStatus = "pending_parent_reply"
    /\ ret.arg = "last_interaction" /\ ret.messageId = 1

\* ----------------------------------------------------------------- C30
\* C30: a run document keeps the identity fields written at creation
\* (runId, agentName, command) whatever askParent, replySubagent,
\* checkMessageStatus, updateSubagentStatus and the exit of the worker do.
C30_IdentityFieldsKept == store.kind = "json" => store.ident

\* ----------------------------------------------------------------- C31
\* C31: an exit code is recorded only when the worker has exited: a
\* document with a non-null exitCode belongs to a worker that has exited,
\* and the only step that writes a non-null exitCode is the close handler
\* (status updates, the message channel and the spawn failure do not).
C31_ExitCodeOnlyFromExit ==
    /\ [](Recorded(store.exitCode) => proc = "closed")
    /\ [][(Recorded(store'.exitCode) /\ store'.exitCode # store.exitCode)
            => (Completes("close") /\ store'.exitCode = ret'.arg)]_vars

\* the worker exited with code 1 and the document records it
C31_Witness ==
    /\ proc = "closed"
    /\ ret.op = "close" /\ ret.arg = "1"
    /\ store.exitCode = "1"

\* ----------------------------------------------------------------- C32
\* C32: a status query on a run whose document exists but does not parse
\* raises an error (it is not answered with not_found) and leaves the
\* stored document as it is, unrepaired.
C32_CorruptDocumentRaises ==
    [][(Completes("status") /\ store.kind = "corrupt")
        => /\ ret'.result = "invalid_json"
           /\ ret'.arg # "not_found"
           /\ ~ret'.wrote
           /\ store' = CorruptDoc]_vars

\* a status query has failed on a damaged document, which is still damaged
C32_Witness ==
    /\ ret.op = "status" /\ ret.result = "invalid_json"
    /\ store = CorruptDoc

\* ----------------------------------------------------------------- C33
HasMessageWithStatus(d, messageStatus) ==
    \E i \in 1..Len(d.messages) : d.messages[i].messageStatus = messageStatus

\* C33: while some message of the run is pending_parent_reply, the run
\* status is waiting_parent_reply (the status under which the status view
\* shows a question awaiting reply), also after another message of the run
\* was replied to or acknowledged.
C33_PendingQuestionStaysVisible ==
    HasMessageWithStatus(store, "pending_parent_reply")
        => store.metaStatus = "waiting_parent_reply"

\* ----------------------------------------------------------------- C34
\* C34: a run whose status is waiting_parent_reply has a message that is
\* pending_parent_reply, and a run whose status is parent_replied has a
\* message that is parent_replied; this holds for the status of the
\* communication section and for the top-level status, and whatever way
\* the handlers interleave.
C34_StatusHasItsMessage ==
    /\ store.metaStatus = "waiting_parent_reply"
           => HasMessageWithStatus(store, "pending_parent_reply")
    /\ store.metaStatus = "parent_replied"
           => HasMessageWithStatus(store, "parent_replied")
    /\ store.status = "waiting_parent_reply"
           => HasMessageWithStatus(store, "pending_parent_reply")
    /\ store.status = "parent_replied"
           => HasMessageWithStatus(store, "parent_replied")

\* one question answered and one pending, status parent_replied
C34_Witness ==
    /\ store.metaStatus = "parent_replied" /\ store.status = "parent_replied"
    /\ Len(store.messages) = 2
    /\ store.messages[1].messageStatus = "parent_replied"
    /\ store.messages[2].messageStatus = "pending_parent_reply"

\* ----------------------------------------------------------------- C35
\* C35: with no other call overlapping it, the close handler writes the
\* document as it is at exit time with only status, exitCode and endTime
\* changed and, at a non-zero exit of a run without summary, the summary:
\* the messages, their answers and statuses, and a summary the worker wrote
\* during the run are in the document it persists.
C35_CloseBuildsOnCurrentDocument ==
    [][Completes("close")
        => /\ store' = [store EXCEPT !.status = store'.status,
                                     !.exitCode = store'.exitCode,
                                     !.endTime = store'.endTime,
                                     !.summary = store'.summary]
           /\ store'.messages = store.messages
           /\ (Truthy(store.summary) \/ ret'.arg = "0")
                  => store'.summary = store.summary]_vars

\* the worker asked, was answered, reported a summary and exited: the
\* answered message and the summary are in the final document
C35_Witness ==
    /\ proc = "closed" /\ ret.op = "close"
    /\ store.exitCode = "1"
    /\ store.summary = "worker"
    /\ Len(store.messages) = 1
    /\ store.messages[1].answerContent = "first"
    /\ store.metaStatus = "parent_replied"

C37_CloseFallsBackToInitialMetadata ==
    [][(Completes("close") /\ store.kind # "json")
        => /\ ret'.result = "ok" /\ ret'.wrote
           /\ store'.status \in {"success", "error"}
           /\ store'.status = "success" <=> ret'.arg = "0"
           /\ store' = [InitialMetadata EXCEPT
                            !.status = store'.status,
                            !.exitCode = ret'.arg,
                            !.endTime = "t_exit",
                            !.summary = IF ret'.arg = "0" THEN "null"
                                        ELSE "Process exited"]
           /\ store'.ident /\ store'.messages = << >> /\ ~store'.meta]_vars

\* a question had been asked during the run; the document was unreadable
\* at exit and the final document has no communication section
C37_Witness ==
    /\ proc = "closed" /\ ret.op = "close" /\ ret.arg = "1"
    /\ nextId = 2
    /\ store.ident /\ ~store.meta /\ store.messages = << >>
    /\ store.status = "error" /\ store.exitCode = "1"

\* ----------------------------------------------------------------- C38
\* C38: every message of the document carries an answer exactly when its
\* messageStatus is parent_replied or acknowledged_by_subagent: a pending
\* message has no answerContent, a replied or acknowledged one has; this
\* holds whatever way the handlers interleave.
C38_AnswerIffReplied ==
    \A i \in 1..Len(store.messages) :
        LET m == store.messages[i]
        IN /\ m.messageStatus \in {"pending_parent_reply", "parent_replied",
                                    "acknowledged_by_subagent"}
           /\ m.answerContent # "absent"
                  <=> m.messageStatus \in {"parent_replied", "acknowledged_by_subagent"}
           /\ m.hasAnswerTimestamp <=> m.answerContent # "absent"

\* an acknowledged answer and a question still pending in one document
C38_Witness ==
    /\ Len(store.messages) = 2
    /\ store.messages[1].messageStatus = "acknowledged_by_subagent"
    /\ store.messages[1].answerContent = "first"
    /\ store.messages[2].messageStatus = "pending_parent_reply"
    /\ store.messages[2].answerContent = "absent"

\* ----------------------------------------------------------------- C39
\* a value of the document, null and a key that is not there taken as one
ValueOf(v) == IF Recorded(v) THEN v ELSE "none"

====
